---- MODULE Spec2Model ----
(***************************************************************************)
(* Tag maps of package tag (src/tag/map.go): Map with Value and String,    *)
(* the in-place primitives insert/update/upsert/delete, the mutators       *)
(* built by Insert/Update/Upsert/Delete, and the derivation NewMap.        *)
(*                                                                         *)
(* Go strings are sequences of one-character strings, so that formatting   *)
(* and the lexicographic comparison of names are computed, not assumed.    *)
(* A *Map is an identifier into heap; Nil is the nil pointer.  A call of   *)
(* NewMap runs to its return before the caller does anything else          *)
(* (pc # "idle" disables the caller's operations); its loop reads          *)
(* mutator[i] only in iteration i, so the elements of the variadic         *)
(* argument are drawn when the loop reaches them and only its length is    *)
(* fixed at the call.                                                      *)
(***************************************************************************)
EXTENDS Integers, Sequences, FiniteSets, TLC

\* ------------------------------------------------------------- bounds
\* Map containers that can be live at once (the one being built included).
MaxMaps == 2
\* Longest variadic argument list handed to NewMap.
MaxMuts == 2

\* ------------------------------------------------- strings, keys, values
Nil == 0
MapIds == 1..MaxMaps

\* Byte value of a character, as Go's string comparison reads it.
Ord(c) ==
  CASE c = " " -> 32
    [] c = "a" -> 97
    [] c = "b" -> 98
    [] c = "x" -> 120
    [] c = "y" -> 121
    [] c = "{" -> 123
    [] c = "}" -> 125

\* Go's s < t on strings: bytewise lexicographic, a proper prefix is smaller.
RECURSIVE StrLess(_, _)
StrLess(s, t) ==
  IF t = <<>> THEN FALSE
  ELSE IF s = <<>> THEN TRUE
  ELSE IF Ord(Head(s)) # Ord(Head(t)) THEN Ord(Head(s)) < Ord(Head(t))
  ELSE StrLess(Tail(s), Tail(t))

\* type Key: a comparable struct carrying the display name.  The names "b"
\* and "ab" are chosen so that lexicographic order differs from length order.
Keys == {[name |-> <<"b">>], [name |-> <<"a", "b">>]}

\* Key.Name()
Name(k) == k.name

\* The string values offered to the mutators; the empty string is the one
\* that fails checkValue.
Values == {<<"x">>, <<"y">>, <<>>}

\* checkValue: the validity predicate of a tag value (non-empty, printable).
checkValue(v) == Len(v) >= 1 /\ \A j \in 1..Len(v) : Ord(v[j]) >= 32 /\ Ord(v[j]) <= 126

\* The contents of a Map's field m: a function from some keys to strings.
EmptyEntries == [x \in {} |-> <<>>]

\* ------------------------------------------------------------ variables
VARIABLES
  heap,        \* live Map containers: id -> contents of field m
  published,   \* ids of the maps NewMap has returned to the caller
  pc,          \* "idle" | "copy" | "mutate" | "returned": position in NewMap
  orig,        \* NewMap's local orig = FromContext(ctx), Nil when absent
  m,           \* NewMap's local m: the map being built
  todo,        \* keys of orig.m the range loop has not visited yet
  nmut,        \* len(mutator) of the running call
  i,           \* mutators already applied by the running call
  ret,         \* <<>> or <<[m, err]>>: what NewMap returned
  applied,     \* <<>> or <<[mod, t, before, m, err]>>: the latest Mutate
  origSnap,    \* contents of the ancestor when NewMap was called
  expect,      \* the ancestor's copy with the primitives applied so far
  sawInvalid,  \* a mutator of this call carried an invalid value
  strs,        \* [t, e, s] of the String calls made in a row, newest first
  lookup       \* <<>> or <<[e, k, v, ok]>>: the latest Value call

vars == <<heap, published, pc, orig, m, todo, nmut, i, ret, applied,
          origSnap, expect, sawInvalid, strs, lookup>>

frame == <<orig, m, todo, nmut, i, ret, origSnap, expect, sawInvalid>>

\* ------------------------------------------------------------- Map
\* func (m *Map) Value(k Key) (string, bool)
Value(e, k) ==
  IF k \in DOMAIN e THEN [v |-> e[k], ok |-> TRUE] ELSE [v |-> <<>>, ok |-> FALSE]

\* The comparator handed to sort.Slice.
less(a, b) == StrLess(Name(a), Name(b))

\* Mutant of SortSlice: the keys are left in the order the range loop gave.
SortSliceUnsorted(keys) == keys

\* sort.Slice(keys, less): keys put in the order of less, by insertion.
RECURSIVE InsertSorted(_, _)
InsertSorted(k, s) ==
  IF s = <<>> THEN <<k>>
  ELSE IF less(k, Head(s)) THEN <<k>> \o s
  ELSE <<Head(s)>> \o InsertSorted(k, Tail(s))

RECURSIVE SortSlice(_)
SortSlice(keys) ==
  IF keys = <<>> THEN <<>> ELSE InsertSorted(Head(keys), SortSlice(Tail(keys)))

\* fmt.Sprintf("{%v %v}", k.name, m.m[k])
Sprintf(k, v) == <<"{">> \o k.name \o <<" ">> \o v \o <<"}">>

RECURSIVE WriteItems(_, _)
WriteItems(e, keys) ==
  IF keys = <<>> THEN <<>>
  ELSE Sprintf(Head(keys), e[Head(keys)]) \o WriteItems(e, Tail(keys))

\* func (m *Map) String() string; range is the order in which the range
\* loop over m.m happened to yield the keys.
String(e, range) ==
  <<"{", " ">> \o WriteItems(e, SortSlice(range)) \o <<" ", "}">>

\* The orders a range loop over a Go map can yield its keys in.
RangeOrders(e) ==
  {s \in [1..Cardinality(DOMAIN e) -> DOMAIN e] :
     \A a, b \in 1..Cardinality(DOMAIN e) : a # b => s[a] # s[b]}

\* Mutant of insert: the presence test is lost, the value is overwritten.
insertOverwrites(e, k, v) == (k :> v) @@ e

\* func (m *Map) insert(k Key, v string)
insert(e, k, v) == IF k \in DOMAIN e THEN e ELSE (k :> v) @@ e

\* Mutant of update: the presence test is lost, an absent key is inserted.
updateInserts(e, k, v) == (k :> v) @@ e

\* func (m *Map) update(k Key, v string)
update(e, k, v) == IF k \in DOMAIN e THEN [e EXCEPT ![k] = v] ELSE e

\* Mutant of upsert: a present key keeps its value.
upsertKeeps(e, k, v) == IF k \in DOMAIN e THEN e ELSE (k :> v) @@ e

\* func (m *Map) upsert(k Key, v string)
upsert(e, k, v) == (k :> v) @@ e

\* Mutant of delete: the key is emptied, not removed.
deleteClears(e, k) == IF k \in DOMAIN e THEN [e EXCEPT ![k] = <<>>] ELSE e

\* func (m *Map) delete(k Key)
delete(e, k) == [x \in DOMAIN e \ {k} |-> e[x]]

\* func newMap(sizeHint int) *Map: a fresh container with an empty map.
newMap(h, id) == (id :> EmptyEntries) @@ h

\* ------------------------------------------------------------- mutators
Insert(k, v) == [op |-> "Insert", k |-> k, v |-> v]
Update(k, v) == [op |-> "Update", k |-> k, v |-> v]
Upsert(k, v) == [op |-> "Upsert", k |-> k, v |-> v]
Delete(k) == [op |-> "Delete", k |-> k, v |-> <<>>]

Mutators ==
  {Insert(k, v) : k \in Keys, v \in Values}
    \cup {Update(k, v) : k \in Keys, v \in Values}
    \cup {Upsert(k, v) : k \in Keys, v \in Values}
    \cup {Delete(k) : k \in Keys}

\* The closures: each takes the heap and the pointer t it is applied to and
\* gives the heap after it, the pointer it returns and the error.
InsertFn(k, v, h, t) ==
  IF ~checkValue(v) THEN [heap |-> h, m |-> Nil, err |-> "errInvalid"]
  ELSE [heap |-> [h EXCEPT ![t] = insert(h[t], k, v)], m |-> t, err |-> "nil"]

\* Mutant of UpdateFn: the value is checked only when the key is present.
UpdateFnLateCheck(k, v, h, t) ==
  IF k \in DOMAIN h[t] /\ ~checkValue(v)
    THEN [heap |-> h, m |-> Nil, err |-> "errInvalid"]
    ELSE [heap |-> [h EXCEPT ![t] = IF k \in DOMAIN h[t]
                                      THEN [h[t] EXCEPT ![k] = v] ELSE h[t]],
          m |-> t, err |-> "nil"]

UpdateFn(k, v, h, t) ==
  IF ~checkValue(v) THEN [heap |-> h, m |-> Nil, err |-> "errInvalid"]
  ELSE [heap |-> [h EXCEPT ![t] = update(h[t], k, v)], m |-> t, err |-> "nil"]

\* Mutant of UpsertFn: the value is stored without the call of checkValue.
UpsertFnUnchecked(k, v, h, t) ==
  [heap |-> [h EXCEPT ![t] = (k :> v) @@ h[t]], m |-> t, err |-> "nil"]

UpsertFn(k, v, h, t) ==
  IF ~checkValue(v) THEN [heap |-> h, m |-> Nil, err |-> "errInvalid"]
  ELSE [heap |-> [h EXCEPT ![t] = upsert(h[t], k, v)], m |-> t, err |-> "nil"]

DeleteFn(k, h, t) ==
  [heap |-> [h EXCEPT ![t] = delete(h[t], k)], m |-> t, err |-> "nil"]

\* func (m *mutator) Mutate(t *Map) (*Map, error)
Mutate(mod, h, t) ==
  CASE mod.op = "Insert" -> InsertFn(mod.k, mod.v, h, t)
    [] mod.op = "Update" -> UpdateFn(mod.k, mod.v, h, t)
    [] mod.op = "Upsert" -> UpsertFn(mod.k, mod.v, h, t)
    [] mod.op = "Delete" -> DeleteFn(mod.k, h, t)

\* ------------------------------------------- what the claims compare with
\* The primitive of a mutator as the specification words it, on contents.
RefApply(e, mod) ==
  LET has == mod.k \in DOMAIN e
      dom == IF mod.op = "Delete" THEN DOMAIN e \ {mod.k}
             ELSE IF mod.op = "Update" THEN DOMAIN e
             ELSE DOMAIN e \cup {mod.k}
      sets == \/ mod.op = "Upsert"
              \/ mod.op = "Insert" /\ ~has
              \/ mod.op = "Update" /\ has
  IN [x \in dom |-> IF x = mod.k /\ sets THEN mod.v ELSE e[x]]

CarriesInvalid(mod) == mod.op # "Delete" /\ ~checkValue(mod.v)

\* ------------------------------------------------------------- NewMap
FreeIds == MapIds \ DOMAIN heap

\* FromContext(ctx): the context carries a map NewMap returned, or none.
FromContext == published \cup {Nil}

\* Mutant of NewMapCall: m := orig when the context carries a map, so the
\* mutators are applied to the ancestor's own container.
NewMapCallAliased ==
  /\ pc = "idle"
  /\ FreeIds # {}
  /\ \E o \in FromContext, len \in 0..MaxMuts :
       LET id == CHOOSE x \in FreeIds : \A y \in FreeIds : x <= y IN
       /\ heap' = IF o = Nil THEN (id :> EmptyEntries) @@ heap ELSE heap
       /\ m' = IF o = Nil THEN id ELSE o
       /\ orig' = o
       /\ nmut' = len
       /\ todo' = {}
       /\ pc' = "mutate"
       /\ origSnap' = IF o = Nil THEN EmptyEntries ELSE heap[o]
       /\ expect' = IF o = Nil THEN EmptyEntries ELSE heap[o]
  /\ i' = 0
  /\ ret' = <<>>
  /\ sawInvalid' = FALSE
  /\ applied' = <<>>
  /\ strs' = <<>>
  /\ lookup' = <<>>
  /\ UNCHANGED published

\* Lines 150-151 and the test of line 152.
NewMapCall ==
  /\ pc = "idle"
  /\ FreeIds # {}
  /\ \E o \in FromContext, len \in 0..MaxMuts :
       LET id == CHOOSE x \in FreeIds : \A y \in FreeIds : x <= y IN
       /\ heap' = newMap(heap, id)
       /\ m' = id
       /\ orig' = o
       /\ nmut' = len
       /\ todo' = IF o = Nil THEN {} ELSE DOMAIN heap[o]
       /\ pc' = IF o # Nil /\ DOMAIN heap[o] # {} THEN "copy" ELSE "mutate"
       /\ origSnap' = IF o = Nil THEN EmptyEntries ELSE heap[o]
       /\ expect' = IF o = Nil THEN EmptyEntries ELSE heap[o]
  /\ i' = 0
  /\ ret' = <<>>
  /\ sawInvalid' = FALSE
  /\ applied' = <<>>
  /\ strs' = <<>>
  /\ lookup' = <<>>
  /\ UNCHANGED published

\* Mutant of CopyEntry: the key is copied, its value is not.
CopyEntryDropsValue(h, dst, src, k) ==
  [h EXCEPT ![dst] = IF k \in DOMAIN h[dst] THEN h[dst] ELSE (k :> <<>>) @@ h[dst]]

\* One iteration of "for k, v := range orig.m { m.insert(k, v) }".
CopyEntry(h, dst, src, k) == [h EXCEPT ![dst] = insert(h[dst], k, h[src][k])]

CopyStep ==
  /\ pc = "copy"
  /\ \E k \in todo :
       /\ heap' = CopyEntry(heap, m, orig, k)
       /\ todo' = todo \ {k}
       /\ pc' = IF todo \ {k} = {} THEN "mutate" ELSE "copy"
  /\ UNCHANGED <<published, orig, m, nmut, i, ret, applied, origSnap, expect,
                 sawInvalid, strs, lookup>>

\* One iteration of the loop of lines 158-163: m, err = mod.Mutate(m).
MutateStep ==
  /\ pc = "mutate"
  /\ i < nmut
  /\ \E mod \in Mutators :
       LET r == Mutate(mod, heap, m) IN
       /\ heap' = r.heap
       /\ applied' = <<[mod |-> mod, t |-> m, before |-> heap[m],
                        m |-> r.m, err |-> r.err]>>
       /\ sawInvalid' = (sawInvalid \/ CarriesInvalid(mod))
       /\ IF r.err # "nil"
            THEN /\ ret' = <<[m |-> Nil, err |-> r.err]>>
                 /\ pc' = "returned"
                 /\ UNCHANGED <<m, i, expect>>
            ELSE /\ m' = r.m
                 /\ i' = i + 1
                 /\ expect' = RefApply(expect, mod)
                 /\ UNCHANGED <<ret, pc>>
  /\ UNCHANGED <<published, orig, todo, nmut, origSnap, strs, lookup>>

\* Line 164: return m, nil.
ReturnStep ==
  /\ pc = "mutate"
  /\ i = nmut
  /\ ret' = <<[m |-> m, err |-> "nil"]>>
  /\ pc' = "returned"
  /\ UNCHANGED <<heap, published, orig, m, todo, nmut, i, applied, origSnap,
                 expect, sawInvalid, strs, lookup>>

\* The caller takes what NewMap returned: a returned map is now the
\* caller's; after an error nothing refers to the map that was being built.
Resume ==
  /\ pc = "returned"
  /\ pc' = "idle"
  /\ IF ret[1].m # Nil
       THEN /\ published' = published \cup {ret[1].m}
            /\ heap' = heap
       ELSE /\ published' = published
            /\ heap' = [x \in DOMAIN heap \ {m} |-> heap[x]]
  /\ orig' = Nil
  /\ m' = Nil
  /\ todo' = {}
  /\ nmut' = 0
  /\ i' = 0
  /\ ret' = <<>>
  /\ origSnap' = EmptyEntries
  /\ expect' = EmptyEntries
  /\ sawInvalid' = FALSE
  /\ applied' = <<>>
  /\ UNCHANGED <<strs, lookup>>

\* ------------------------------------------- the caller's own operations
\* mod.Mutate(t) called directly on a map the caller holds.
MutateCall ==
  /\ pc = "idle"
  /\ \E t \in published, mod \in Mutators :
       LET r == Mutate(mod, heap, t) IN
       /\ heap' = r.heap
       /\ applied' = <<[mod |-> mod, t |-> t, before |-> heap[t],
                        m |-> r.m, err |-> r.err]>>
  /\ strs' = <<>>
  /\ lookup' = <<>>
  /\ UNCHANGED <<published, pc, frame>>

\* t.String() on a map the caller holds.
StringCall ==
  /\ pc = "idle"
  /\ \E t \in published : \E range \in RangeOrders(heap[t]) :
       strs' = <<[t |-> t, e |-> heap[t], s |-> String(heap[t], range)]>>
                 \o (IF strs = <<>> THEN <<>> ELSE <<Head(strs)>>)
  /\ applied' = <<>>
  /\ lookup' = <<>>
  /\ UNCHANGED <<heap, published, pc, frame>>

\* t.Value(k) on a map the caller holds.
ValueCall ==
  /\ pc = "idle"
  /\ \E t \in published, k \in Keys :
       lookup' = <<[e |-> heap[t], k |-> k,
                    v |-> Value(heap[t], k).v, ok |-> Value(heap[t], k).ok]>>
  /\ applied' = <<>>
  /\ strs' = <<>>
  /\ UNCHANGED <<heap, published, pc, frame>>

Init ==
  /\ heap = EmptyEntries
  /\ published = {}
  /\ pc = "idle"
  /\ orig = Nil
  /\ m = Nil
  /\ todo = {}
  /\ nmut = 0
  /\ i = 0
  /\ ret = <<>>
  /\ applied = <<>>
  /\ origSnap = EmptyEntries
  /\ expect = EmptyEntries
  /\ sawInvalid = FALSE
  /\ strs = <<>>
  /\ lookup = <<>>

Next ==
  \/ NewMapCall
  \/ CopyStep
  \/ MutateStep
  \/ ReturnStep
  \/ Resume
  \/ MutateCall
  \/ StringCall
  \/ ValueCall

Spec == Init /\ [][Next]_vars

\* ------------------------------------------------------------- claims
InCall == pc \in {"copy", "mutate", "returned"}
Returned == pc = "returned"
Ok == Returned /\ ret[1].err = "nil"
Failed == Returned /\ ret[1].err # "nil"

\* C1: NewMap returns the copy of the ancestor's entries (empty when the
\* context carries no map) with the primitives of the mutators applied one
\* by one in list order; with zero mutators it has exactly the ancestor's
\* entries, and a list of valid mutators never fails.
C1_NewMapAppliesInOrder ==
  /\ pc = "mutate" => heap[m] = expect
  /\ Ok => /\ heap[ret[1].m] = expect
           /\ nmut = 0 => heap[ret[1].m] = origSnap
  /\ Returned /\ ~sawInvalid => ret[1].err = "nil"

\* C1 witness: a derivation from a non-empty ancestor returned after an
\* Update of a key that only an earlier mutator of the same call inserted.
C1_Witness ==
  /\ Ok /\ orig # Nil /\ origSnap # EmptyEntries /\ nmut = 2 /\ i = 2
  /\ applied # <<>>
  /\ applied[1].mod.op = "Update"
  /\ applied[1].mod.k \notin DOMAIN origSnap
  /\ applied[1].mod.k \in DOMAIN heap[ret[1].m]
  /\ heap[ret[1].m][applied[1].mod.k] = applied[1].mod.v

\* C2: NewMap returns errInvalid with a nil map exactly when a mutator of
\* the list carried an invalid value, also when its primitive would have
\* been a no-op; the map built so far is no returned map; otherwise NewMap
\* returns a map and no error.
C2_ErrorIffInvalidValue ==
  Returned =>
    /\ ret[1].err \in {"nil", "errInvalid"}
    /\ (ret[1].err = "errInvalid") <=> sawInvalid
    /\ ret[1].err = "errInvalid" => ret[1].m = Nil /\ m \notin published
    /\ ret[1].err = "nil" => ret[1].m # Nil /\ ret[1].m \in DOMAIN heap

\* C2 witness: the call failed on an Update of an absent key (a no-op had
\* the value been valid) after a valid mutator had changed the map.
C2_Witness ==
  /\ Failed /\ i = 1 /\ heap[m] # origSnap
  /\ applied[1].mod.op = "Update"
  /\ applied[1].mod.k \notin DOMAIN applied[1].before

\* C3: during and after NewMap the ancestor has the entries it had at the
\* call, and the map built and returned is another container.
C3_AncestorUnchanged ==
  InCall /\ orig # Nil =>
    /\ orig \in DOMAIN heap
    /\ heap[orig] = origSnap
    /\ m # orig
    /\ Ok => ret[1].m # orig

\* C3 witness: NewMap returned a map that differs from its non-empty ancestor.
C3_Witness ==
  /\ Ok /\ orig # Nil /\ origSnap # EmptyEntries
  /\ heap[ret[1].m] # origSnap
  /\ DOMAIN heap[ret[1].m] # DOMAIN origSnap

\* The state right after a mutator mod was applied to a map.
After == heap[applied[1].t]
Others(k) == Keys \ {k}

\* C4: Insert with a valid value binds an absent key to it, keeps the value
\* of a present key, changes no other key and returns no error.
C4_InsertIfAbsent ==
  applied # <<>> /\ applied[1].mod.op = "Insert" /\ checkValue(applied[1].mod.v) =>
    LET a == applied[1] IN
    /\ a.err = "nil" /\ a.m = a.t
    /\ Value(After, a.mod.k) =
         IF a.mod.k \in DOMAIN a.before
           THEN [v |-> a.before[a.mod.k], ok |-> TRUE]
           ELSE [v |-> a.mod.v, ok |-> TRUE]
    /\ \A x \in Others(a.mod.k) : Value(After, x) = Value(a.before, x)

\* C4 witness: Insert of a valid value on a key bound to another value.
C4_Witness ==
  /\ applied # <<>> /\ applied[1].mod.op = "Insert" /\ checkValue(applied[1].mod.v)
  /\ applied[1].mod.k \in DOMAIN applied[1].before
  /\ applied[1].before[applied[1].mod.k] # applied[1].mod.v

\* C5: Update with a valid value rebinds a present key, leaves an absent
\* key absent, changes no other key and returns no error.
C5_UpdateIfPresent ==
  applied # <<>> /\ applied[1].mod.op = "Update" /\ checkValue(applied[1].mod.v) =>
    LET a == applied[1] IN
    /\ a.err = "nil" /\ a.m = a.t
    /\ Value(After, a.mod.k) =
         IF a.mod.k \in DOMAIN a.before
           THEN [v |-> a.mod.v, ok |-> TRUE]
           ELSE [v |-> <<>>, ok |-> FALSE]
    /\ \A x \in Others(a.mod.k) : Value(After, x) = Value(a.before, x)

\* C5 witness: Update of a valid value on an absent key of a non-empty map.
C5_Witness ==
  /\ applied # <<>> /\ applied[1].mod.op = "Update" /\ checkValue(applied[1].mod.v)
  /\ applied[1].mod.k \notin DOMAIN applied[1].before
  /\ applied[1].before # EmptyEntries

\* C6 as stated: after Upsert(k, v) with any value v, Value(k) = (v, true).
C6_UpsertAnyValue ==
  applied # <<>> /\ applied[1].mod.op = "Upsert" =>
    Value(After, applied[1].mod.k) = [v |-> applied[1].mod.v, ok |-> TRUE]

\* C6 amended: after Upsert(k, v) with a valid value v, Value(k) = (v, true)
\* whether or not k was present; with an invalid value the mutator returns
\* errInvalid and leaves the map as it was.
C6_UpsertValidValue ==
  applied # <<>> /\ applied[1].mod.op = "Upsert" =>
    LET a == applied[1] IN
    IF checkValue(a.mod.v)
      THEN /\ a.err = "nil" /\ a.m = a.t
           /\ Value(After, a.mod.k) = [v |-> a.mod.v, ok |-> TRUE]
      ELSE /\ a.err = "errInvalid" /\ a.m = Nil
           /\ After = a.before

\* C6 witness: Upsert of a valid value on a key bound to another value.
C6_Witness ==
  /\ applied # <<>> /\ applied[1].mod.op = "Upsert" /\ checkValue(applied[1].mod.v)
  /\ applied[1].mod.k \in DOMAIN applied[1].before
  /\ applied[1].before[applied[1].mod.k] # applied[1].mod.v

\* C7: Delete returns no error, leaves the key absent whether or not it was
\* present and changes no other key; a call of NewMap never fails on a
\* Delete mutator.
C7_DeleteRemoves ==
  /\ applied # <<>> /\ applied[1].mod.op = "Delete" =>
       LET a == applied[1] IN
       /\ a.err = "nil" /\ a.m = a.t
       /\ Value(After, a.mod.k) = [v |-> <<>>, ok |-> FALSE]
       /\ \A x \in Others(a.mod.k) : Value(After, x) = Value(a.before, x)
  /\ Failed => applied[1].mod.op # "Delete"

\* C7 witness: Delete of a present key of a map holding another key too.
C7_Witness ==
  /\ applied # <<>> /\ applied[1].mod.op = "Delete"
  /\ applied[1].mod.k \in DOMAIN applied[1].before
  /\ Cardinality(DOMAIN applied[1].before) = 2

\* The rendering the specification describes: the "{name value}" items in
\* ascending order of the name between "{ " and " }".
RECURSIVE Items(_, _)
Items(e, q) ==
  IF q = <<>> THEN <<>>
  ELSE <<"{">> \o Head(q).name \o <<" ">> \o e[Head(q)] \o <<"}">> \o Items(e, Tail(q))

Ascending(e) ==
  CHOOSE q \in RangeOrders(e) :
    \A a, b \in 1..Len(q) : a < b => StrLess(q[a].name, q[b].name)

RefRender(e) == <<"{", " ">> \o Items(e, Ascending(e)) \o <<" ", "}">>

\* C8: String() depends only on the key/value pairs: two calls on maps with
\* the same pairs give the same string, the items in ascending name order.
C8_StringDeterministic ==
  /\ \A a, b \in 1..Len(strs) : strs[a].e = strs[b].e => strs[a].s = strs[b].s
  /\ \A a \in 1..Len(strs) : strs[a].s = RefRender(strs[a].e)

\* C8 witness: String was called on two different maps holding the same two
\* pairs.
C8_Witness ==
  /\ Len(strs) = 2
  /\ strs[1].t # strs[2].t
  /\ strs[1].e = strs[2].e
  /\ Cardinality(DOMAIN strs[1].e) = 2

\* A step of the caller applying a mutator directly to a map it holds.
IsMutateCall == pc = "idle" /\ pc' = "idle" /\ applied' # <<>>

\* C9 as stated: no step of a public operation, Mutate included, changes
\* the entries of a map NewMap has returned.
C9_ReturnedMapImmutable ==
  [][\A t \in published : t \in DOMAIN heap' /\ heap'[t] = heap[t]]_vars

\* C9 amended: no step of Value, String or NewMap changes the entries of a
\* map NewMap has returned; Mutate called by the caller can.
C9_ReturnedMapKeptByDerivation ==
  [][~IsMutateCall => \A t \in published : t \in DOMAIN heap' /\ heap'[t] = heap[t]]_vars

\* C9 witness: a derivation from a returned map has applied a mutator that
\* changed the map being built.
C9_Witness ==
  /\ pc = "mutate" /\ orig \in published /\ i >= 1
  /\ heap[m] # heap[orig]

\* C10: every value stored in a returned map satisfies checkValue.
C10_ReturnedValuesValid ==
  \A t \in published : \A k \in DOMAIN heap[t] : checkValue(heap[t][k])

\* C10 witness: two returned maps, the later derived from the earlier, both
\* holding entries.
C10_Witness ==
  /\ Cardinality(published) = 2
  /\ \A t \in published : heap[t] # EmptyEntries
  /\ \E t \in published : Cardinality(DOMAIN heap[t]) = 2

====
